---- MODULE Spec2Model ----
(***************************************************************************)
(* Model of backend/onyx/server/regulation_analysis/api.py: the streaming  *)
(* pipeline analyze_stream (regulations -> articles -> documents ->        *)
(* citations -> summary) and the generation call it is built on.           *)
(*                                                                         *)
(* JSON values returned by the generation service are abstracted by their  *)
(* shape (field k) and, for a list stored under the stage's key, by the    *)
(* list's elements (field items).  Strings are TLA+ strings; Chars gives   *)
(* the characters of a name where the code looks inside it.                *)
(***************************************************************************)
EXTENDS Integers, Sequences, FiniteSets, TLC

VARIABLES
    pc,                    \* position of analyze_stream
    stream,                \* frames yielded to the caller so far
    calls,                 \* external calls issued so far, in order
    reg_resp,              \* what the regulations call returned
    regulations_response,  \* api.py:400
    article_results,       \* api.py:401
    citation_results,      \* api.py:402
    related_docs_map,      \* api.py:469
    art_units,             \* the tasks of the gather at api.py:453
    cit_units,             \* the tasks of the gather at api.py:531
    overtaken,             \* in the gather that is awaited or has just returned,
                           \* a task returned before an earlier-submitted one
    doc_i,                 \* position in the documents stage's loop
    cancel_at,             \* where the caller closed the stream, or "none"
    probe                  \* a function of the module applied on its own:
                           \* its arguments and, once applied, its result

pipeline == <<pc, stream, calls, reg_resp, regulations_response,
              article_results, citation_results, related_docs_map, art_units,
              cit_units, overtaken, doc_i, cancel_at>>

vars == <<pc, stream, calls, reg_resp, regulations_response, article_results,
          citation_results, related_docs_map, art_units, cit_units,
          overtaken, doc_i, cancel_at, probe>>

----------------------------------------------------------------------------
(* Bounds of the model *)

\* longest 'regulations' list the generation service returns
MaxRegs == 2
\* most articles the generation service returns in one run, over all calls
MaxArticles == 2
\* longest 'citations' list one call returns
MaxCitations == 1
\* longest candidate list a search returns, when the correlation is applied
\* on its own
MaxCandidates == 3
\* largest limit given to the correlation
MaxLimit == 2
\* most fragments llm.stream yields, when the generation call is applied on
\* its own
MaxFragments == 3
\* most related_document chunks stored, when the lookup is applied on its own
MaxChunks == 3

----------------------------------------------------------------------------
(* JSON values, by shape *)

\* a key that a JSON object does not have
Missing == "<missing>"

RegNames == {"r1", "r2"}
ArtNames == {"a1"}

\* a list element that is a JSON object; Missing marks an absent key
ObjElem(r, a) == [obj |-> TRUE, regulation |-> r, article |-> a]
\* a list element that is not an object (a string, a number)
StrElem == [obj |-> FALSE, regulation |-> Missing, article |-> Missing]

\* elements of a 'regulations' list: only the key 'regulation' is read
RegElems == {ObjElem(r, Missing) : r \in RegNames \cup {Missing}} \cup {StrElem}
\* elements of an 'articles' list
ArtElems == {ObjElem(r, a) : r \in RegNames, a \in ArtNames} \cup {StrElem}
\* elements of a 'citations' list: never inspected by the pipeline
CitElems == {ObjElem(r, a) : r \in RegNames, a \in ArtNames}

SeqsUpTo(S, n) == UNION {[1..m -> S] : m \in 0..n}

\* Outcomes of llm.stream that are not a JSON text
FailKinds == {"raise", "empty", "garbage"}
\* Shapes of a JSON text, relative to the key the stage reads:
\*   array    a non-empty JSON array
\*   emptyobj {}
\*   nokey    a non-empty object without the key
\*   keynull  the key maps to null
\*   keynum   the key maps to a number
\*   keystr   the key maps to a non-empty string (items: its characters)
\*   keyobj   the key maps to an object
\*   list     the key maps to a list (items: its elements)
NoItemKinds == {"array", "emptyobj", "nokey", "keynull", "keynum"}

Resp(k, items) == [k |-> k, items |-> items]
None == Resp("None", <<>>)

RegResponses ==
    {Resp(k, <<>>) : k \in FailKinds \cup NoItemKinds}
    \cup {Resp("keystr", <<StrElem>>)}
    \cup {Resp("list", s) : s \in SeqsUpTo(RegElems, MaxRegs)}

IsJson(v) == v.k \in NoItemKinds \cup {"keystr", "keyobj", "list"}
IsDict(v) == v.k \in {"emptyobj", "nokey", "keynull", "keynum", "keystr", "keyobj",
                   "list"}
HasKey(v) == v.k \in {"keynull", "keynum", "keystr", "keyobj", "list"}
\* Python truthiness of the parsed value
Truthy(v) == IsJson(v) /\ v.k # "emptyobj"
\* Python truthiness of v.get(key)
KeyTruthy(v) == v.k \in {"keynum", "keystr"} \/ (v.k = "list" /\ v.items # <<>>)

----------------------------------------------------------------------------
(* Frames *)

\* One frame of the stream: the chunk a callee produced, prefixed "data: "
\* by the caller.  term: the chunk ends with the blank line.
Chunk(type, content, term) == [type |-> type, content |-> content, term |-> term]
Frame(chunk, stage, unit) ==
    [type |-> chunk.type, content |-> chunk.content, term |-> chunk.term,
     stage |-> stage, unit |-> unit]

\* what _call_llm_with_template reports for every failure of the call
\* (api.py:58, 63, 74: the texts differ, the frame's type does not)
GenerationError == Chunk("error", "generation call failed", TRUE)

\* RegulationDescriptor._call_llm_with_template: the single chunk it yields
CallLLM(response_type, v) ==
    IF v.k = "raise" THEN GenerationError
    ELSE IF v.k = "empty" THEN GenerationError
    ELSE IF v.k = "garbage" THEN GenerationError
    ELSE Chunk(response_type, v, TRUE)

GenCall(stage, unit) == [svc |-> "generate", stage |-> stage, unit |-> unit]

\* a generation call that is issued again after it failed
AttemptsWithRetry(call) == <<call, call>>

\* api.py:49-59: llm.stream is called once per request; a failure is reported,
\* the call is not issued again
Attempts(call) == <<call>>

RECURSIVE Flatten(_)
Flatten(ss) == IF ss = <<>> THEN <<>> ELSE Head(ss) \o Flatten(Tail(ss))

----------------------------------------------------------------------------
(* Exceptions *)

\* a handler that catches BaseException
CatchesBaseException(exc) == TRUE

\* `except Exception`: asyncio.CancelledError derives from BaseException
CatchesException(exc) == exc # "CancelledError"

----------------------------------------------------------------------------
\* analyze_stream before its first step, api.py:398-405
InitPipeline ==
    /\ pc = "s1_call"
    /\ stream = <<>>
    /\ calls = <<>>
    /\ reg_resp = None
    /\ regulations_response = None
    /\ article_results = <<>>
    /\ citation_results = <<>>
    /\ related_docs_map = [defined |-> FALSE, entries |-> <<>>]
    /\ art_units = <<>>
    /\ cit_units = <<>>
    /\ overtaken = FALSE
    /\ doc_i = 0
    /\ cancel_at = "none"

\* no function is applied on its own
Idle == [op |-> "none"]

Init == InitPipeline /\ probe = Idle

\* api.py:407 up to the await inside _call_llm_with_template (api.py:50)
CallRegulations ==
    /\ pc = "s1_call"
    /\ pc' = "s1_wait"
    /\ calls' = calls \o Attempts(GenCall(1, 0))
    /\ overtaken' = FALSE
    /\ UNCHANGED probe
    /\ UNCHANGED <<stream, reg_resp, regulations_response, article_results,
                   citation_results, related_docs_map, art_units, cit_units,
                   doc_i, cancel_at>>

\* api.py:407-432: the regulations chunk arrives
RegulationsReturn(v) ==
    /\ pc = "s1_wait"
    /\ reg_resp' = v
    /\ LET chunk == CallLLM("regulation", v)
           first == Frame(chunk, 1, 0)
           parsed == chunk.type = "regulation"
       IN  IF parsed /\ ~(IsDict(v) /\ HasKey(v))
           THEN \* api.py:413-415 raises, api.py:559-562 reports
                /\ stream' = stream \o <<first,
                                Frame(Chunk("error", "Analysis error", TRUE), 1, 0)>>
                /\ regulations_response' = v
                /\ pc' = "done"
           ELSE IF ~parsed \/ ~KeyTruthy(v)
           THEN \* api.py:423-426
                /\ stream' = stream \o <<first,
                                Frame(Chunk("error", "No valid regulations found", TRUE), 1, 0)>>
                /\ regulations_response' = IF parsed THEN v ELSE None
                /\ pc' = "done"
           ELSE IF v.k = "keynum"
           THEN \* api.py:429: len() of a number raises, api.py:559-562 reports
                /\ stream' = stream \o <<first,
                                Frame(Chunk("error", "Analysis error", TRUE), 1, 0)>>
                /\ regulations_response' = v
                /\ pc' = "done"
           ELSE /\ stream' = Append(stream, first)
                /\ regulations_response' = v
                /\ pc' = "s2_start"
    /\ overtaken' = FALSE
    /\ UNCHANGED probe
    /\ UNCHANGED <<calls, article_results, citation_results,
                   related_docs_map, art_units, cit_units, doc_i, cancel_at>>

----------------------------------------------------------------------------
(* Stage 2: one task per regulation, api.py:434-463 *)

ArtResponses ==
    {Resp(k, <<>>) : k \in FailKinds \cup {"array", "nokey", "keynull"}}
    \cup {Resp("list", s) : s \in SeqsUpTo(ArtElems, MaxArticles)}

Unit(st, chunks, result) == [st |-> st, chunks |-> chunks, result |-> result]

\* process_regulation_articles up to its first await: the task either is
\* suspended in its generation call, or has returned, or has raised.
ArtUnitStart(regulation) ==
    IF ~regulation.obj
    THEN \* api.py:438 raises, and so does the handler at api.py:449
         Unit("crashed", <<>>, None)
    ELSE IF regulation.regulation = Missing
    THEN \* api.py:189 raises KeyError, api.py:448-450 returns
         Unit("done", <<Chunk("error", "Error processing articles", FALSE)>>, None)
    ELSE Unit("running", <<>>, None)

\* process_regulation_articles, api.py:440-447: the call's chunk arrives
ArtUnitResult(v) ==
    LET chunk == CallLLM("article", v)
    IN  Unit("done", <<chunk>>, IF chunk.type = "article" THEN v ELSE None)

Indices(units, states) == {i \in 1..Len(units) : units[i].st \in states}

\* the indices of S in increasing order
RECURSIVE Ascending(_)
Ascending(S) ==
    IF S = {} THEN <<>>
    ELSE LET m == CHOOSE x \in S : \A y \in S : x <= y
         IN  <<m>> \o Ascending(S \ {m})

UnitFrames(stage, i, unit) ==
    [c \in 1..Len(unit.chunks) |-> Frame(unit.chunks[c], stage, i)]

\* a task that yields its chunk to the stream as soon as it has it
FramesStreamed(stage, i, unit) == UnitFrames(stage, i, unit)

\* api.py:442, api.py:514: a task keeps the chunk it received in its own list;
\* what it adds to the stream when it returns
FramesOnReturn(stage, i, unit) == <<>>

\* a task that returns while an earlier-submitted one is still suspended
Overtakes(units, i) == \E j \in Indices(units, {"running"}) : j < i

\* the articles the finished tasks have returned
RECURSIVE Returned(_, _)
Returned(units, i) ==
    IF i > Len(units) THEN 0
    ELSE Len(units[i].result.items) + Returned(units, i + 1)

\* api.py:432-453: the gather creates the tasks and each runs to its first await
StartArticles ==
    /\ pc = "s2_start"
    /\ LET regulations == regulations_response.items
           units == [i \in 1..Len(regulations) |-> ArtUnitStart(regulations[i])]
           running == Ascending(Indices(units, {"running"}))
       IN  /\ art_units' = units
           /\ calls' = calls \o Flatten([k \in 1..Len(running) |->
                                        Attempts(GenCall(2, running[k]))])
    /\ pc' = "s2_wait"
    /\ overtaken' = FALSE
    /\ UNCHANGED probe
    /\ UNCHANGED <<stream, reg_resp, regulations_response, article_results,
                   citation_results, related_docs_map, cit_units, doc_i,
                   cancel_at>>

\* a task of the articles gather gets its chunk and returns (api.py:440-447);
\* once the gather has raised nothing reads what the task returns
ArticleUnitReturn(i, v) ==
    /\ i \in Indices(art_units, {"running"})
    /\ IF pc = "s2_wait" /\ Indices(art_units, {"crashed"}) = {}
       THEN /\ Returned(art_units, 1) + Len(v.items) <= MaxArticles
            /\ art_units' = [art_units EXCEPT ![i] = ArtUnitResult(v)]
            /\ stream' = stream \o FramesOnReturn(2, i, ArtUnitResult(v))
            /\ overtaken' = (overtaken \/ Overtakes(art_units, i))
       ELSE /\ art_units' = [art_units EXCEPT ![i] = Unit("done", <<>>, None)]
            /\ UNCHANGED <<stream, overtaken>>
    /\ UNCHANGED probe
    /\ UNCHANGED <<pc, calls, reg_resp, regulations_response,
                   article_results, citation_results, related_docs_map,
                   cit_units, doc_i, cancel_at>>

\* api.py:457-461: the loop over the results; it stops where
\* articles.get('articles', []) or extend raises
RECURSIVE AggregateArticles(_, _, _, _)
AggregateArticles(results, i, frames, articles) ==
    IF i > Len(results) THEN [frames |-> frames, articles |-> articles]
    ELSE LET u == results[i]
             fr == frames \o UnitFrames(2, i, u)
         IN  IF ~Truthy(u.result)
             THEN AggregateArticles(results, i + 1, fr, articles)
             ELSE IF u.result.k \in {"array", "keynull", "keynum"}
             THEN [frames |-> fr, articles |-> articles]
             ELSE AggregateArticles(results, i + 1, fr,
                                    articles \o u.result.items)

\* an articles stage after which the documents stage never runs
AfterArticlesNoDocs(articles) ==
    /\ pc' = "s4_start"
    /\ UNCHANGED <<related_docs_map, doc_i>>

\* api.py:466-469 / 499: what follows the articles stage
AfterArticles(articles) ==
    IF Truthy(regulations_response) /\ articles # <<>>
    THEN /\ pc' = "s3"
         /\ related_docs_map' = [defined |-> TRUE, entries |-> <<>>]
         /\ doc_i' = 1
    ELSE /\ pc' = "s4_start"
         /\ UNCHANGED <<related_docs_map, doc_i>>

\* api.py:452-469: the gather returns or raises
GatherArticles ==
    /\ pc = "s2_wait"
    /\ IF Indices(art_units, {"crashed"}) # {}
       THEN \* the first exception propagates at once; api.py:462-463 logs it
            /\ CatchesException("AttributeError")
            /\ UNCHANGED <<stream, article_results>>
            /\ AfterArticles(article_results)
       ELSE /\ Indices(art_units, {"running"}) = {}
            /\ LET agg == AggregateArticles(art_units, 1, <<>>, <<>>)
               IN  /\ stream' = stream \o agg.frames
                   /\ article_results' = article_results \o agg.articles
                   /\ AfterArticles(article_results \o agg.articles)
    /\ UNCHANGED probe
    /\ UNCHANGED <<calls, reg_resp, regulations_response, citation_results,
                   art_units, cit_units, overtaken, cancel_at>>

----------------------------------------------------------------------------
(* Strings the code looks inside *)

StrChars ==
    [r1 |-> <<"r", "1">>, r2 |-> <<"r", "2">>, a1 |-> <<"a", "1">>,
     R1 |-> <<"R", "1">>, A1 |-> <<"A", "1">>, zz |-> <<"z", "z">>,
     d1 |-> <<"d", "1">>, d2 |-> <<"d", "2">>, b |-> <<"b">>, h |-> <<"h">>,
     x |-> <<"x">>, y |-> <<"y">>]
    @@ ("x:" :> <<"x", ":">>) @@ (":y" :> <<":", "y">>)
Chars(s) == IF s = "" THEN <<>> ELSE StrChars[s]

\* str.lower(), character by character
LowerChar(c) == IF c = "R" THEN "r" ELSE IF c = "A" THEN "a" ELSE c
Lower(cs) == [i \in 1..Len(cs) |-> LowerChar(cs[i])]

\* Python's `needle in hay` on strings
Contains(needle, hay) ==
    \E i \in 0..(Len(hay) - Len(needle)) :
        SubSeq(hay, i + 1, i + Len(needle)) = needle

\* api.py:483, api.py:506: f"{reg}:{art}"
Key(reg, art) == Chars(reg) \o <<":">> \o Chars(art)

----------------------------------------------------------------------------
(* Stage 3: RegulationDescriptor.find_related_documents, api.py:262-380 *)

\* find_related_documents's default, api.py:268
limit == 1

\* a search hit; semantic_identifier "" stands for None
Doc(id, title, blurb, highlights) ==
    [document_id |-> id, semantic_identifier |-> title, blurb |-> blurb,
     match_highlights |-> highlights]

\* what document_index.admin_retrieval returns (at most limit * 3 hits)
SearchResults ==
    { <<>>,
      <<Doc("d2", "zz", "b", <<>>), Doc("d1", "A1", "", <<"h">>)>> }

\* api.py:336-347
IsRelevant(reg_name, art_name, doc) ==
    LET doc_identifier == Lower(Chars(doc.semantic_identifier))
        doc_title == Lower(Chars(doc.semantic_identifier))
        reg_name_lower == Lower(Chars(reg_name))
        art_name_lower == Lower(Chars(art_name))
    IN  \/ Contains(reg_name_lower, doc_identifier)
        \/ Contains(reg_name_lower, doc_title)
        \/ Contains(art_name_lower, doc_identifier)
        \/ Contains(art_name_lower, doc_title)

\* a loop that skips no document
NeverSeen(doc, seen_docs) == FALSE

\* api.py:332
Seen(doc, seen_docs) == doc.document_id \in seen_docs

\* api.py:329-358: the loop that fills unique_docs
RECURSIVE UniqueDocs(_, _, _, _, _, _, _)
UniqueDocs(reg_name, art_name, documents, lim, k, seen_docs, unique_docs) ==
    IF k > Len(documents) THEN unique_docs
    ELSE LET doc == documents[k]
         IN  IF Seen(doc, seen_docs)
             THEN UniqueDocs(reg_name, art_name, documents, lim, k + 1,
                             seen_docs, unique_docs)
             ELSE IF ~IsRelevant(reg_name, art_name, doc)
             THEN UniqueDocs(reg_name, art_name, documents, lim, k + 1,
                             seen_docs, unique_docs)
             ELSE IF Len(unique_docs) + 1 >= lim
             THEN Append(unique_docs, doc)
             ELSE UniqueDocs(reg_name, art_name, documents, lim, k + 1,
                             seen_docs \cup {doc.document_id},
                             Append(unique_docs, doc))

\* api.py:372: (match_highlights or [blurb]) if blurb else []
MatchHighlights(doc) ==
    IF doc.blurb # ""
    THEN (IF doc.match_highlights # <<>> THEN doc.match_highlights
          ELSE <<doc.blurb>>)
    ELSE <<>>

\* api.py:361-376: the chunks yielded for one (regulation, article) pair
RelatedChunks(reg_name, art_name, documents, lim) ==
    LET unique_docs == UniqueDocs(reg_name, art_name, documents, lim, 1, {}, <<>>)
    IN  [i \in 1..Len(unique_docs) |->
            Chunk("related_document",
                  [regulation |-> reg_name, article |-> art_name,
                   document |-> [document_id |-> unique_docs[i].document_id,
                                 semantic_identifier |->
                                     unique_docs[i].semantic_identifier,
                                 match_highlights |->
                                     MatchHighlights(unique_docs[i])]],
                  TRUE)]

SearchStep(r, a) == [op |-> "search", regulation |-> r, article |-> a]
CrashStep == [op |-> "crash", regulation |-> Missing, article |-> Missing]

\* api.py:300-311: the searches made for one regulation, or the point where
\* art.get raises on an element that is not an object
RECURSIVE MatchingSearches(_, _, _)
MatchingSearches(reg_name, articles, k) ==
    IF k > Len(articles) THEN <<>>
    ELSE LET art == articles[k]
             rest == MatchingSearches(reg_name, articles, k + 1)
         IN  IF art.regulation = reg_name /\ art.article # Missing
             THEN <<SearchStep(reg_name, art.article)>> \o rest
             ELSE rest

\* api.py:294-298: the steps of the two nested loops, in order
RECURSIVE DocPlan(_, _, _)
DocPlan(regulations, articles, k) ==
    IF k > Len(regulations) THEN <<>>
    ELSE LET regulation == regulations[k]
         IN  IF ~regulation.obj THEN <<CrashStep>>
             ELSE IF regulation.regulation = Missing
             THEN DocPlan(regulations, articles, k + 1)
             ELSE IF \E j \in 1..Len(articles) : ~articles[j].obj
             THEN <<CrashStep>>
             ELSE MatchingSearches(regulation.regulation, articles, 1)
                  \o DocPlan(regulations, articles, k + 1)

Plan == DocPlan(regulations_response.items, article_results, 1)

SearchCall(r, a) == [svc |-> "search", stage |-> 3, unit |-> <<r, a>>]

\* a lookup in which the last document written for a key stays
RECURSIVE StoreDocsLastWins(_, _, _)
StoreDocsLastWins(entries, chunks, k) ==
    IF k > Len(chunks) THEN entries
    ELSE LET c == chunks[k].content
             key == Key(c.regulation, c.article)
         IN  IF \E j \in 1..Len(entries) : entries[j].key = key
             THEN StoreDocsLastWins(
                      [j \in 1..Len(entries) |->
                          IF entries[j].key = key
                          THEN [key |-> key, document |-> c.document]
                          ELSE entries[j]],
                      chunks, k + 1)
             ELSE StoreDocsLastWins(
                      Append(entries, [key |-> key, document |-> c.document]),
                      chunks, k + 1)

\* api.py:480-485: first write wins
RECURSIVE StoreDocs(_, _, _)
StoreDocs(entries, chunks, k) ==
    IF k > Len(chunks) THEN entries
    ELSE LET c == chunks[k].content
             key == Key(c.regulation, c.article)
         IN  IF \E j \in 1..Len(entries) : entries[j].key = key
             THEN StoreDocs(entries, chunks, k + 1)
             ELSE StoreDocs(Append(entries, [key |-> key, document |-> c.document]),
                            chunks, k + 1)

DocsError == Chunk("error", "Error finding related documents", TRUE)

\* a documents stage whose failure ends the run
AfterDocsFatal(failed) == IF failed THEN "done" ELSE "s4_start"

\* api.py:493-499: where analyze_stream goes when find_related_documents is
\* exhausted, after it reported a failure (api.py:378-380) or not
AfterDocs(failed) == "s4_start"

\* api.py:287-291 raise: api.py:378-380 reports and the generator ends
DocsSetupFails ==
    /\ pc = "s3" /\ doc_i = 1
    /\ stream' = Append(stream, Frame(DocsError, 3, 0))
    /\ pc' = AfterDocs(TRUE)
    /\ overtaken' = FALSE
    /\ UNCHANGED probe
    /\ UNCHANGED <<calls, reg_resp, regulations_response, article_results,
                   citation_results, related_docs_map, art_units, cit_units,
                   doc_i, cancel_at>>

\* one turn of the loops of find_related_documents that raises:
\* regulation.get or art.get on an element that is not an object
DocsCrash ==
    /\ pc = "s3" /\ doc_i <= Len(Plan) /\ Plan[doc_i].op = "crash"
    /\ stream' = Append(stream, Frame(DocsError, 3, doc_i))
    /\ pc' = AfterDocs(TRUE)
    /\ overtaken' = FALSE
    /\ UNCHANGED probe
    /\ UNCHANGED <<calls, reg_resp, regulations_response, article_results,
                   citation_results, related_docs_map, art_units, cit_units,
                   doc_i, cancel_at>>

\* api.py:311-323, 378-380: the search raises
DocsSearchRaises ==
    /\ pc = "s3" /\ doc_i <= Len(Plan) /\ Plan[doc_i].op = "search"
    /\ calls' = Append(calls, SearchCall(Plan[doc_i].regulation, Plan[doc_i].article))
    /\ stream' = Append(stream, Frame(DocsError, 3, doc_i))
    /\ pc' = AfterDocs(TRUE)
    /\ overtaken' = FALSE
    /\ UNCHANGED probe
    /\ UNCHANGED <<reg_resp, regulations_response, article_results,
                   citation_results, related_docs_map, art_units, cit_units,
                   doc_i, cancel_at>>

\* api.py:311-376 and 471-489: one search, its chunks yielded and stored
DocsSearch(documents) ==
    /\ pc = "s3" /\ doc_i <= Len(Plan) /\ Plan[doc_i].op = "search"
    /\ calls' = Append(calls, SearchCall(Plan[doc_i].regulation, Plan[doc_i].article))
    /\ LET chunks == RelatedChunks(Plan[doc_i].regulation, Plan[doc_i].article,
                                   documents, limit)
       IN  /\ stream' = stream \o [c \in 1..Len(chunks) |-> Frame(chunks[c], 3, doc_i)]
           /\ related_docs_map' =
                 [related_docs_map EXCEPT
                     !.entries = StoreDocs(related_docs_map.entries, chunks, 1)]
    /\ doc_i' = doc_i + 1
    /\ overtaken' = FALSE
    /\ UNCHANGED probe
    /\ UNCHANGED <<pc, reg_resp, regulations_response, article_results,
                   citation_results, art_units, cit_units, cancel_at>>

\* api.py:493-499: the generator is exhausted
DocsDone ==
    /\ pc = "s3" /\ doc_i > Len(Plan)
    /\ pc' = AfterDocs(FALSE)
    /\ overtaken' = FALSE
    /\ UNCHANGED probe
    /\ UNCHANGED <<stream, calls, reg_resp, regulations_response,
                   article_results, citation_results, related_docs_map,
                   art_units, cit_units, doc_i, cancel_at>>

----------------------------------------------------------------------------
(* Stage 4: one task per article, api.py:503-541 *)

CitResponses ==
    {Resp(k, <<>>) : k \in FailKinds \cup {"array", "nokey"}}
    \cup {Resp("list", s) : s \in SeqsUpTo(CitElems, MaxCitations) \ {<<>>}}

NoDoc == [none |-> TRUE]

\* related_docs_map.get(key), api.py:507
MapGet(entries, key) ==
    IF \E j \in 1..Len(entries) : entries[j].key = key
    THEN entries[CHOOSE j \in 1..Len(entries) : entries[j].key = key].document
    ELSE NoDoc

CitationCall(unit, related_doc) ==
    [svc |-> "generate", stage |-> 4, unit |-> unit, related_doc |-> related_doc]

CitUnitError == Chunk("error", "Error processing citations", FALSE)

\* process_article_citations up to its first await
CitUnitStart(article) ==
    IF ~article.obj
    THEN \* api.py:506 raises, and so does the handler at api.py:527
         Unit("crashed", <<>>, <<>>)
    ELSE IF article.regulation = Missing \/ article.article = Missing
    THEN \* api.py:506 raises KeyError, api.py:526-528 returns
         Unit("done", <<CitUnitError>>, <<>>)
    ELSE Unit("running", <<>>, <<>>)

\* process_article_citations, api.py:512-528: the call's chunk arrives
CitUnitResult(v) ==
    LET chunk == CallLLM("citation", v)
    IN  IF chunk.type # "citation" THEN Unit("done", <<chunk>>, <<>>)
        ELSE IF v.k \in {"array", "keynum"}
        THEN \* .get on a list, or extend with a number: api.py:526-528
             Unit("done", <<CitUnitError>>, <<>>)
        ELSE Unit("done", <<chunk>>,
                  IF v.k \in {"keystr", "list"} THEN v.items ELSE <<>>)

\* api.py:499-531: the gather creates the tasks and each runs to its first await
StartCitations ==
    /\ pc = "s4_start"
    /\ LET units == [i \in 1..Len(article_results) |->
                        CitUnitStart(article_results[i])]
           running == Ascending(Indices(units, {"running"}))
       IN  /\ cit_units' = units
           /\ calls' = calls \o Flatten(
                [k \in 1..Len(running) |->
                    Attempts(CitationCall(running[k],
                        MapGet(related_docs_map.entries,
                               Key(article_results[running[k]].regulation,
                                   article_results[running[k]].article))))])
    /\ pc' = "s4_wait"
    /\ overtaken' = FALSE
    /\ UNCHANGED probe
    /\ UNCHANGED <<stream, reg_resp, regulations_response, article_results,
                   citation_results, related_docs_map, art_units, doc_i,
                   cancel_at>>

\* a task of the citations gather gets its chunk and returns (api.py:512-525);
\* once the gather has raised nothing reads what the task returns
CitationUnitReturn(i, v) ==
    /\ i \in Indices(cit_units, {"running"})
    /\ IF pc = "s4_wait" /\ Indices(cit_units, {"crashed"}) = {}
       THEN /\ cit_units' = [cit_units EXCEPT ![i] = CitUnitResult(v)]
            /\ stream' = stream \o FramesOnReturn(4, i, CitUnitResult(v))
            /\ overtaken' = (overtaken \/ Overtakes(cit_units, i))
       ELSE /\ cit_units' = [cit_units EXCEPT ![i] = Unit("done", <<>>, <<>>)]
            /\ UNCHANGED <<stream, overtaken>>
    /\ UNCHANGED probe
    /\ UNCHANGED <<pc, calls, reg_resp, regulations_response,
                   article_results, citation_results, related_docs_map,
                   art_units, doc_i, cancel_at>>

\* api.py:535-538
RECURSIVE AggregateCitations(_, _, _, _)
AggregateCitations(results, i, frames, citations) ==
    IF i > Len(results) THEN [frames |-> frames, citations |-> citations]
    ELSE AggregateCitations(results, i + 1,
                            frames \o UnitFrames(4, i, results[i]),
                            citations \o results[i].result)

\* a citations stage whose failure ends the run
AfterCitationsFatal(failed) == IF failed THEN "done" ELSE "s5_call"

\* api.py:538-546: where analyze_stream goes after the citations stage,
\* after its handler ran (api.py:539-541) or not
AfterCitations(failed) == "s5_call"

\* api.py:530-541: the gather returns or raises
GatherCitations ==
    /\ pc = "s4_wait"
    /\ IF Indices(cit_units, {"crashed"}) # {}
       THEN \* the first exception propagates at once; api.py:539-541 reports
            /\ CatchesException("AttributeError")
            /\ stream' = Append(stream,
                   Frame(Chunk("error", "Error processing citations", TRUE), 4, 0))
            /\ UNCHANGED citation_results
            /\ pc' = AfterCitations(TRUE)
       ELSE /\ Indices(cit_units, {"running"}) = {}
            /\ LET agg == AggregateCitations(cit_units, 1, <<>>, <<>>)
               IN  /\ stream' = stream \o agg.frames
                   /\ citation_results' = citation_results \o agg.citations
                   /\ pc' = AfterCitations(FALSE)
    /\ UNCHANGED probe
    /\ UNCHANGED <<calls, reg_resp, regulations_response, article_results,
                   related_docs_map, art_units, cit_units, overtaken, doc_i, cancel_at>>

----------------------------------------------------------------------------
(* Stage 5: api.py:543-557 *)

\* the summary's content is forwarded, never read: keyobj is an object
\* with the key 'summary'
SumResponses == {Resp(k, <<>>) : k \in FailKinds \cup {"keyobj"}}

CallSummary ==
    /\ pc = "s5_call"
    /\ pc' = "s5_wait"
    /\ calls' = calls \o Attempts(GenCall(5, 0))
    /\ overtaken' = FALSE
    /\ UNCHANGED probe
    /\ UNCHANGED <<stream, reg_resp, regulations_response, article_results,
                   citation_results, related_docs_map, art_units, cit_units,
                   doc_i, cancel_at>>

SummaryReturn(v) ==
    /\ pc = "s5_wait"
    /\ stream' = Append(stream, Frame(CallLLM("summary", v), 5, 0))
    /\ pc' = "done"
    /\ overtaken' = FALSE
    /\ UNCHANGED probe
    /\ UNCHANGED <<calls, reg_resp, regulations_response, article_results,
                   citation_results, related_docs_map, art_units, cit_units,
                   doc_i, cancel_at>>

----------------------------------------------------------------------------
(* The caller closes the stream *)

\* The task that iterates analyze_stream is cancelled while the generator
\* awaits: CancelledError is raised at the await, the gather cancels its
\* tasks, and the exception meets the `except Exception` handlers around
\* the await (api.py:462 or api.py:539, then api.py:559).
CancelStream ==
    /\ pc \in {"s1_wait", "s2_wait", "s4_wait", "s5_wait"}
    /\ cancel_at = "none"
    /\ cancel_at' = pc
    /\ art_units' = IF pc = "s2_wait"
                    THEN [i \in DOMAIN art_units |->
                            IF art_units[i].st = "running"
                            THEN Unit("cancelled", <<>>, None) ELSE art_units[i]]
                    ELSE art_units
    /\ cit_units' = IF pc = "s4_wait"
                    THEN [i \in DOMAIN cit_units |->
                            IF cit_units[i].st = "running"
                            THEN Unit("cancelled", <<>>, <<>>) ELSE cit_units[i]]
                    ELSE cit_units
    /\ IF ~CatchesException("CancelledError")
       THEN /\ pc' = "cancelled"
            /\ UNCHANGED <<stream, related_docs_map, doc_i>>
       ELSE IF pc = "s2_wait"
       THEN \* api.py:462-463
            /\ UNCHANGED stream
            /\ AfterArticles(article_results)
       ELSE IF pc = "s4_wait"
       THEN \* api.py:539-541
            /\ stream' = Append(stream,
                   Frame(Chunk("error", "Error processing citations", TRUE), 4, 0))
            /\ pc' = AfterCitations(TRUE)
            /\ UNCHANGED <<related_docs_map, doc_i>>
       ELSE \* api.py:559-562
            /\ stream' = Append(stream,
                   Frame(Chunk("error", "Analysis error", TRUE), 0, 0))
            /\ pc' = "done"
            /\ UNCHANGED <<related_docs_map, doc_i>>
    /\ UNCHANGED probe
    /\ UNCHANGED <<calls, reg_resp, regulations_response, article_results,
                   citation_results, overtaken>>

Next ==
    \/ CallRegulations
    \/ \E v \in RegResponses : RegulationsReturn(v)
    \/ StartArticles
    \/ \E i \in DOMAIN art_units, v \in ArtResponses : ArticleUnitReturn(i, v)
    \/ GatherArticles
    \/ DocsSetupFails
    \/ DocsCrash
    \/ DocsSearchRaises
    \/ \E documents \in SearchResults : DocsSearch(documents)
    \/ DocsDone
    \/ StartCitations
    \/ \E i \in DOMAIN cit_units, v \in CitResponses : CitationUnitReturn(i, v)
    \/ GatherCitations
    \/ CallSummary
    \/ \E v \in SumResponses : SummaryReturn(v)
    \/ CancelStream

Spec == Init /\ [][Next]_vars

----------------------------------------------------------------------------
(* The generation call on texts, api.py:37-84 *)

\* A fragment is a sequence of characters; what llm.stream does: it raises
\* (in get_default_llms or while streaming) or it yields fragments.
Fragments == {<<>>, <<"{">>, <<"}">>, <<"{", "}">>}
LLMOutcomes ==
    [raises : {"no", "get_default_llms", "stream"},
     fragments : SeqsUpTo(Fragments, MaxFragments)]

\* json.loads succeeds: over the characters { and } the only JSON text is {}
ParsesAsJson(content) == content = <<"{", "}">>

\* api.py:50-53: `if chunk.content`
HasContent(fragment) == fragment # <<>>

\* a generation call that forwards only the last fragment
JoinLast(chunks) == chunks[Len(chunks)]

\* api.py:66: "".join(chunks)
Join(chunks) == Flatten(chunks)

\* RegulationDescriptor._call_llm_with_template: the chunks it yields
call_llm_with_template(response_type, llm) ==
    IF llm.raises = "get_default_llms"
    THEN \* api.py:44, 81-84
         <<Chunk("error", "Error getting response", TRUE)>>
    ELSE IF llm.raises = "stream"
    THEN \* api.py:56-59
         <<Chunk("error", "Error during LLM streaming", TRUE)>>
    ELSE LET chunks == SelectSeq(llm.fragments, HasContent)
         IN  IF chunks = <<>>
             THEN \* api.py:61-64
                  <<Chunk("error", "No response received", TRUE)>>
             ELSE LET content == Join(chunks)
                  IN  IF ~ParsesAsJson(content)
                      THEN \* api.py:69-75
                           <<Chunk("error", "Invalid response format", TRUE)>>
                      ELSE \* api.py:79
                           <<Chunk(response_type, content, TRUE)>>

ResponseTypes == {"regulation", "article", "citation", "summary"}

----------------------------------------------------------------------------
(* The functions applied on their own *)

\* candidates of a search: document_id, semantic_identifier ("" for None)
Candidates ==
    {Doc(id, title, "", <<>>) : id \in {"d1", "r1"}, title \in {"", "zz", "R1"}}

CorrelateProbes ==
    [op : {"correlate"}, reg_name : {"r1"}, art_name : {"a1"},
     documents : SeqsUpTo(Candidates, MaxCandidates), limit : 0..MaxLimit,
     done : {FALSE}, out : {<<>>}]

CallProbes ==
    [op : {"call"}, response_type : ResponseTypes, llm : LLMOutcomes,
     done : {FALSE}, out : {<<>>}]

\* what find_related_documents puts under 'document' (api.py:367-373)
StoredDoc(id) ==
    [document_id |-> id, semantic_identifier |-> "zz", match_highlights |-> <<>>]

\* api.py:362-376: a related_document chunk
RelatedChunk(reg_name, art_name, id) ==
    Chunk("related_document",
          [regulation |-> reg_name, article |-> art_name,
           document |-> StoredDoc(id)],
          TRUE)

\* one document stored for a pair, then the lookup of a pair; names with
\* and without the character ':'
LookupProbes ==
    [op : {"lookup"}, reg_name : {"x", "x:"}, art_name : {"y", ":y"},
     reg2 : {"x", "x:"}, art2 : {"y", ":y"}, done : {FALSE}, out : {<<>>}]

\* the related_document chunks of a documents stage, to be stored in order
StoreProbes ==
    [op : {"store"},
     chunks : SeqsUpTo({RelatedChunk(r, a, id) :
                           r \in RegNames, a \in ArtNames, id \in {"d1", "d2"}},
                       MaxChunks),
     k : {1}, done : {FALSE}, out : {<<>>}]

FnInit ==
    /\ InitPipeline
    /\ probe \in CorrelateProbes \cup CallProbes \cup LookupProbes \cup StoreProbes

\* api.py:329-376 for one (regulation, article) pair and one search result
Correlate ==
    /\ probe.op = "correlate" /\ ~probe.done
    /\ probe' = [probe EXCEPT
                    !.done = TRUE,
                    !.out = RelatedChunks(probe.reg_name, probe.art_name,
                                          probe.documents, probe.limit)]
    /\ UNCHANGED pipeline

\* api.py:37-84 for one outcome of llm.stream
CallTemplate ==
    /\ probe.op = "call" /\ ~probe.done
    /\ probe' = [probe EXCEPT
                    !.done = TRUE,
                    !.out = call_llm_with_template(probe.response_type, probe.llm)]
    /\ UNCHANGED pipeline

\* api.py:480-485 for one chunk, then api.py:506-507 for one article
Lookup ==
    /\ probe.op = "lookup" /\ ~probe.done
    /\ LET entries == StoreDocs(<<>>, <<RelatedChunk(probe.reg_name,
                                                     probe.art_name, "d1")>>, 1)
       IN  probe' = [probe EXCEPT
                        !.done = TRUE,
                        !.out = <<MapGet(entries, Key(probe.reg2, probe.art2))>>]
    /\ UNCHANGED pipeline

\* api.py:477-485 for the next chunk find_related_documents yields
StoreNext ==
    /\ probe.op = "store" /\ probe.k <= Len(probe.chunks)
    /\ probe' = [probe EXCEPT
                    !.out = StoreDocs(probe.out, <<probe.chunks[probe.k]>>, 1),
                    !.k = probe.k + 1,
                    !.done = (probe.k = Len(probe.chunks))]
    /\ UNCHANGED pipeline

FnNext ==
    \/ Correlate
    \/ CallTemplate
    \/ Lookup
    \/ StoreNext

FnSpec == FnInit /\ [][FnNext]_vars

----------------------------------------------------------------------------
(* Properties *)

Types == {stream[p].type : p \in DOMAIN stream}
Count(type) == Cardinality({p \in DOMAIN stream : stream[p].type = type})
SuccessTypes == {"regulation", "article", "citation", "summary"}
UnitsRunning(units) == Indices(units, {"running"}) # {}

\* stage 1 yielded zero regulations: the call failed, its output has no
\* 'regulations' list, or the list is empty
ZeroRegulations ==
    \/ reg_resp.k \in FailKinds \cup {"array", "emptyobj", "nokey", "keynull"}
    \/ reg_resp.k = "list" /\ reg_resp.items = <<>>

\* C1: a run in which stage 1 yields zero regulations has exactly one frame
\* of type error and no frame of type article, citation, related_document
\* or summary when it closes.
C1_ExactlyOneError ==
    (pc = "done" /\ ZeroRegulations)
        => /\ Count("error") = 1
           /\ Types \cap {"article", "citation", "related_document", "summary"} = {}

\* stage 1 did not produce a non-empty list under 'regulations'
NoRegulationsList ==
    \/ ZeroRegulations
    \/ reg_resp.k \in {"keynum", "keystr"}

\* C2: when stage 1 does not produce a non-empty 'regulations' list, no call
\* of a later stage is ever issued and the closed stream ends with an error
\* frame.
C2_FatalWithoutRegulations ==
    NoRegulationsList
        => /\ \A c \in DOMAIN calls : calls[c].stage = 1
           /\ pc = "done" => stream[Len(stream)].type = "error"

\* C3: in the frames of a fan-out stage, the frames of a task submitted
\* earlier come before the frames of a task submitted later, in whatever
\* order the tasks returned.
C3_SubmissionOrder ==
    \A p, q \in DOMAIN stream :
        (/\ stream[p].stage \in {2, 4}
         /\ stream[p].stage = stream[q].stage
         /\ stream[p].unit # 0 /\ stream[q].unit # 0
         /\ stream[p].unit < stream[q].unit) => p < q

\* the articles gather has just returned, its second task had returned before
\* its first, and the frames of both are on the stream
C3_Witness ==
    /\ overtaken
    /\ pc \in {"s3", "s4_start"}
    /\ \E p, q \in DOMAIN stream :
          /\ stream[p].stage = 2 /\ stream[p].unit = 1
          /\ stream[q].stage = 2 /\ stream[q].unit = 2

PastArticles == pc \in {"s3", "s4_start", "s4_wait", "s5_call", "s5_wait", "done"}
HasFrame(stage, i, types) ==
    \E p \in DOMAIN stream :
        stream[p].stage = stage /\ stream[p].unit = i /\ stream[p].type \in types
Aggregated(items, results) ==
    \A k \in DOMAIN items : \E j \in DOMAIN results : results[j] = items[k]

\* C4: once the articles stage is over, every task that failed has an error
\* frame, and every other task has its article frame on the stream and its
\* articles in article_results (runs in which 'regulations' is a list and
\* every parsed value has a list under 'articles').
C4_UnitFailureIsolated ==
    (/\ PastArticles
     /\ reg_resp.k = "list"
     /\ \A i \in DOMAIN art_units :
           art_units[i].result = None \/ art_units[i].result.k = "list")
        => \A i \in DOMAIN art_units :
              IF art_units[i].st = "crashed" \/ art_units[i].result = None
              THEN HasFrame(2, i, {"error"})
              ELSE /\ HasFrame(2, i, {"article"})
                   /\ Aggregated(art_units[i].result.items, article_results)

\* C5: while a task of a fan-out stage is still running, the stream holds
\* no frame of that stage.
C5_Barrier ==
    /\ UnitsRunning(art_units) => \A p \in DOMAIN stream : stream[p].stage # 2
    /\ UnitsRunning(cit_units) => \A p \in DOMAIN stream : stream[p].stage # 4

\* C6: a call of a later stage is issued only when no task of an earlier
\* fan-out stage is still running, and the stages of the calls never decrease.
C6_StagesSequential ==
    /\ UnitsRunning(art_units) => \A c \in DOMAIN calls : calls[c].stage <= 2
    /\ UnitsRunning(cit_units) => \A c \in DOMAIN calls : calls[c].stage <= 4
    /\ \A c, d \in DOMAIN calls : c < d => calls[c].stage <= calls[d].stage

\* C7: when the caller closes the stream during the articles fan-out, that
\* step and every later step add no frame and issue no call, the generator
\* is closed, and no call of a later stage has been made.
C7_CancelSilences ==
    /\ [][cancel_at' = "s2_wait" => (stream' = stream /\ calls' = calls)]_vars
    /\ [](cancel_at = "s2_wait"
            => /\ pc = "cancelled"
               /\ \A c \in DOMAIN calls : calls[c].stage <= 2)

\* the stream was closed while a task of the articles gather was in flight
C7_Witness ==
    /\ cancel_at = "s2_wait"
    /\ pc = "cancelled"
    /\ \E i \in DOMAIN art_units : art_units[i].st = "cancelled"

\* C8: a frame of a stage's own type carries a parsed value that has the
\* stage's key.
C8_ShapeValidated ==
    \A p \in DOMAIN stream :
        stream[p].type \in SuccessTypes => HasKey(stream[p].content)

\* C9: every aggregated citation has the (regulation, article) pair of some
\* article of an article frame.
C9_NoOrphanCitations ==
    \A c \in DOMAIN citation_results :
        \E p \in DOMAIN stream :
            /\ stream[p].type = "article"
            /\ \E k \in DOMAIN stream[p].content.items :
                  /\ stream[p].content.items[k].regulation
                        = citation_results[c].regulation
                  /\ stream[p].content.items[k].article
                        = citation_results[c].article

\* C10: every aggregated article that names a regulation names one of the
\* regulations of the regulation frame.
C10_ArticlesOfEmittedRegulations ==
    \A a \in DOMAIN article_results :
        (article_results[a].obj /\ article_results[a].regulation # Missing)
            => \E r \in DOMAIN regulations_response.items :
                  regulations_response.items[r].regulation
                      = article_results[a].regulation

StageCalls(stage) == {c \in DOMAIN calls : calls[c].stage = stage}

\* C11: a finished run that aggregated at least one article has made the
\* summary call, and when no task of the articles stage raised, no summary
\* call is ever made while the aggregated article list is empty.
C11_SummaryOnlyWithArticles ==
    /\ (pc = "done" /\ article_results # <<>>) => StageCalls(5) # {}
    /\ (StageCalls(5) # {} /\ Indices(art_units, {"crashed"}) = {})
          => article_results # <<>>

\* the gather of the articles stage raised, or the loop over its results did:
\* the handler at api.py:462 caught the exception
ArticlesHandlerRan ==
    /\ PastArticles
    /\ \E i \in DOMAIN art_units :
          \/ art_units[i].st = "crashed"
          \/ art_units[i].result.k \in {"array", "keynull"}

\* the gather of the citations stage raised: the handler at api.py:539 ran
CitationsHandlerRan ==
    /\ pc \in {"s5_call", "s5_wait", "done"}
    /\ \E i \in DOMAIN cit_units : cit_units[i].st = "crashed"

\* C12: whenever the handler around a fan-out stage has caught an exception,
\* the stream holds an error frame of that stage that belongs to no task.
C12_CaughtBecomesEvent ==
    /\ ArticlesHandlerRan => HasFrame(2, 0, {"error"})
    /\ CitationsHandlerRan => HasFrame(4, 0, {"error"})

\* C20: once the articles stage is over and no task has raised, every chunk
\* a task returned is on the stream, and the items of every list a task
\* returned are in article_results.
C20_EveryUnitEmitted ==
    (PastArticles /\ Indices(art_units, {"crashed"}) = {})
        => \A i \in DOMAIN art_units :
              /\ art_units[i].chunks # <<>> => HasFrame(2, i, {"article", "error"})
              /\ art_units[i].result.k = "list"
                    => Aggregated(art_units[i].result.items, article_results)

\* find_related_documents reported a failure
DocsFailed == \E p \in DOMAIN stream : stream[p].stage = 3 /\ stream[p].type = "error"

WellFormed(article) ==
    article.obj /\ article.regulation # Missing /\ article.article # Missing

\* C13: after a failure of the documents stage the run does not end without
\* the summary call, and the citations stage has one task per aggregated
\* article; the task of every well-formed article made exactly one call,
\* with the document stored for its pair, or with none when none is stored.
C13_DocsFailureRecovered ==
    DocsFailed =>
        /\ pc = "done" => StageCalls(5) # {}
        /\ pc \in {"s4_wait", "s5_call", "s5_wait", "done"} =>
              /\ Len(cit_units) = Len(article_results)
              /\ \A i \in DOMAIN article_results :
                    WellFormed(article_results[i]) =>
                       /\ Cardinality({c \in StageCalls(4) : calls[c].unit = i}) = 1
                       /\ \A c \in StageCalls(4) :
                             calls[c].unit = i =>
                                LET key == Key(article_results[i].regulation,
                                               article_results[i].article)
                                    stored == {j \in DOMAIN related_docs_map.entries :
                                                 related_docs_map.entries[j].key = key}
                                IN  /\ stored = {} => calls[c].related_doc = NoDoc
                                    /\ \A j \in stored :
                                          calls[c].related_doc
                                              = related_docs_map.entries[j].document

StoredKeys == {related_docs_map.entries[j].key : j \in DOMAIN related_docs_map.entries}

\* a search raised after an earlier search had stored a document; the run
\* finished, and the citations stage ran a task for an article with a stored
\* document and a task for an article without
C13_Witness ==
    /\ pc = "done"
    /\ DocsFailed
    /\ \E c \in DOMAIN calls : calls[c].svc = "search"
    /\ \E i, j \in DOMAIN article_results :
          /\ WellFormed(article_results[i]) /\ WellFormed(article_results[j])
          /\ Key(article_results[i].regulation, article_results[i].article)
                \in StoredKeys
          /\ Key(article_results[j].regulation, article_results[j].article)
                \notin StoredKeys
          /\ cit_units[i].st = "done" /\ cit_units[j].st = "done"

\* C15: a finished run that reached the articles stage holds exactly one
\* frame of the summary stage, that frame is the last of the stream, and
\* every frame of type summary is a frame of the summary stage.
C15_OneSummaryLast ==
    (pc = "done" /\ art_units # <<>>) =>
        /\ Cardinality({p \in DOMAIN stream : stream[p].stage = 5}) = 1
        /\ stream[Len(stream)].stage = 5
        /\ stream[Len(stream)].type \in {"summary", "error"}
        /\ \A p \in DOMAIN stream : stream[p].type = "summary" => stream[p].stage = 5

\* the citations handler ran (a task raised), and the run still ended with
\* the summary frame
C15_Witness ==
    /\ pc = "done"
    /\ HasFrame(4, 0, {"error"})
    /\ stream[Len(stream)].type = "summary"

IsSearch(call) == call.svc = "search"
SearchCalls == SelectSeq(calls, IsSearch)
UnitCalls(stage, i) == Cardinality({c \in StageCalls(stage) : calls[c].unit = i})

\* the calls that are the same for the claim and for its amendment: at most
\* one regulations call, at most one summary call, and the k-th search call
\* is the search of the k-th searched (regulation, article) occurrence
OnceEach ==
    /\ Cardinality(StageCalls(1)) <= 1
    /\ Cardinality(StageCalls(5)) <= 1
    /\ \A k \in DOMAIN SearchCalls :
          /\ k <= Len(Plan)
          /\ Plan[k].op = "search"
          /\ SearchCalls[k].unit = <<Plan[k].regulation, Plan[k].article>>

\* C16 as stated: OnceEach, and once the tasks of a fan-out stage exist,
\* exactly one generation call was made for every regulation in stage 2 and
\* for every aggregated article in stage 4.
C16_ExactlyOncePerUnit ==
    /\ OnceEach
    /\ art_units # <<>> =>
          \A i \in DOMAIN regulations_response.items : UnitCalls(2, i) = 1
    /\ cit_units # <<>> =>
          \A i \in DOMAIN article_results : UnitCalls(4, i) = 1

\* C16 amended: OnceEach, and once the tasks of a fan-out stage exist,
\* exactly one generation call was made for every regulation that is an
\* object with a 'regulation' key and for every aggregated article that is an
\* object with 'regulation' and 'article' keys, and none for any other element.
C16_AtMostOncePerUnit ==
    /\ OnceEach
    /\ art_units # <<>> =>
          \A i \in DOMAIN regulations_response.items :
              UnitCalls(2, i) =
                 IF regulations_response.items[i].obj
                    /\ regulations_response.items[i].regulation # Missing
                 THEN 1 ELSE 0
    /\ cit_units # <<>> =>
          \A i \in DOMAIN article_results :
              UnitCalls(4, i) = IF WellFormed(article_results[i]) THEN 1 ELSE 0

\* a finished run in which one regulation had no name and the articles call
\* of another failed
C16_Witness ==
    /\ pc = "done"
    /\ \E i, j \in DOMAIN art_units :
          /\ regulations_response.items[i].regulation = Missing
          /\ regulations_response.items[j].regulation # Missing
          /\ art_units[j].chunks = <<GenerationError>>

\* every fragment llm.stream yielded, concatenated in order
RECURSIVE ConcatAll(_)
ConcatAll(fragments) ==
    IF fragments = <<>> THEN <<>>
    ELSE Head(fragments) \o ConcatAll(Tail(fragments))

\* C14: the generation call yields exactly one chunk: of type error when
\* llm.stream raises or yields no non-empty fragment, and when the text of
\* the fragments is valid JSON, of the stage's type with that text, the
\* fragments concatenated in order, as content.
C14_ExactlyOneEvent ==
    (probe.op = "call" /\ probe.done) =>
        /\ Len(probe.out) = 1
        /\ (\/ probe.llm.raises # "no"
            \/ \A k \in DOMAIN probe.llm.fragments : probe.llm.fragments[k] = <<>>)
              => probe.out[1].type = "error"
        /\ (/\ probe.llm.raises = "no"
            /\ ParsesAsJson(ConcatAll(probe.llm.fragments)))
              => /\ probe.out[1].type = probe.response_type
                 /\ probe.out[1].content = ConcatAll(probe.llm.fragments)

\* valid JSON arrived in two fragments with an empty one between them
C14_Witness ==
    /\ probe.op = "call" /\ probe.done
    /\ probe.llm.raises = "no"
    /\ probe.llm.fragments = << <<"{">>, <<>>, <<"}">> >>
    /\ probe.out = <<Chunk(probe.response_type, <<"{", "}">>, TRUE)>>

EmittedIds == [k \in DOMAIN probe.out |-> probe.out[k].content.document.document_id]

\* C17: the related documents emitted for one pair hold each document
\* identifier at most once.
C17_EmittedIdsDistinct ==
    (probe.op = "correlate" /\ probe.done) =>
        \A k, m \in DOMAIN EmittedIds : EmittedIds[k] = EmittedIds[m] => k = m

\* an identifier occurs three times: its first occurrence is rejected by the
\* relevance guard, its second is accepted, its third is skipped, and a
\* document with another identifier is not reached
C17_Witness ==
    /\ probe.op = "correlate" /\ probe.done
    /\ probe.limit = 2
    /\ probe.documents = <<Doc("d1", "zz", "", <<>>), Doc("d1", "R1", "", <<>>),
                           Doc("d1", "R1", "", <<>>)>>
    /\ EmittedIds = <<"d1">>

\* C18: at most limit related documents are emitted for one pair.
C18_AtMostLimit ==
    (probe.op = "correlate" /\ probe.done) => Len(probe.out) <= probe.limit

\* the relevance guard of the claim: the display title or the indexed
\* document identifier contains the regulation name or the article identifier
RefRelevant(reg_name, art_name, doc) ==
    \E needle \in {Lower(Chars(reg_name)), Lower(Chars(art_name))} :
        \/ Contains(needle, Lower(Chars(doc.semantic_identifier)))
        \/ Contains(needle, Lower(Chars(doc.document_id)))

\* the reference of the claim: the documents accepted, in order
RECURSIVE RefCorrelate(_, _, _, _, _, _)
RefCorrelate(reg_name, art_name, documents, lim, k, accepted) ==
    IF Len(accepted) >= lim \/ k > Len(documents) THEN accepted
    ELSE IF /\ \A m \in DOMAIN accepted :
                  accepted[m].document_id # documents[k].document_id
            /\ RefRelevant(reg_name, art_name, documents[k])
    THEN RefCorrelate(reg_name, art_name, documents, lim, k + 1,
                      Append(accepted, documents[k]))
    ELSE RefCorrelate(reg_name, art_name, documents, lim, k + 1, accepted)

\* C19: for a limit of at least 1, the documents emitted for one pair are
\* those the reference accepts, in the same order.
C19_EqualsReference ==
    (probe.op = "correlate" /\ probe.done /\ probe.limit >= 1) =>
        LET ref == RefCorrelate(probe.reg_name, probe.art_name, probe.documents,
                                probe.limit, 1, <<>>)
        IN  /\ Len(probe.out) = Len(ref)
            /\ \A k \in DOMAIN ref :
                  /\ EmittedIds[k] = ref[k].document_id
                  /\ probe.out[k].content.document.semantic_identifier
                        = ref[k].semantic_identifier

\* the documents stage ran to its end and reported no failure
DocsCompleted ==
    /\ pc \in {"s4_start", "s4_wait", "s5_call", "s5_wait", "done"}
    /\ related_docs_map.defined
    /\ ~DocsFailed

\* C21: when the documents stage has run to its end without a failure, the
\* searches made are one per aggregated article, for the article's
\* (regulation, article) pair, in the order of the article list.
C21_OneSearchPerArticle ==
    DocsCompleted =>
        /\ Len(SearchCalls) = Len(article_results)
        /\ \A k \in DOMAIN SearchCalls :
              k <= Len(article_results) =>
                 SearchCalls[k].unit = <<article_results[k].regulation,
                                         article_results[k].article>>

\* the article lists the tasks returned, concatenated in task order
RECURSIVE ReturnedArticles(_, _)
ReturnedArticles(units, i) ==
    IF i > Len(units) THEN <<>>
    ELSE (IF units[i].result.k = "list" THEN units[i].result.items ELSE <<>>)
         \o ReturnedArticles(units, i + 1)

\* C25: once the articles stage is over and no task has raised,
\* article_results is the concatenation, in task order, of the lists the
\* tasks returned.
C25_ArticlesConcatenated ==
    (PastArticles /\ Indices(art_units, {"crashed"}) = {})
        => article_results = ReturnedArticles(art_units, 1)

\* the highlights the claim expects for a search hit
ExpectedHighlights(doc) ==
    IF doc.match_highlights # <<>> THEN doc.match_highlights
    ELSE IF doc.blurb # "" THEN <<doc.blurb>>
    ELSE <<>>

\* C26: the match_highlights of every related_document frame are those the
\* search supplied for that document when it supplied any, and otherwise
\* the excerpt as single snippet, or nothing when there is no excerpt.
C26_HighlightsKept ==
    \A p \in DOMAIN stream :
        stream[p].type = "related_document" =>
            \A documents \in SearchResults :
                \A k \in DOMAIN documents :
                    documents[k].document_id
                        = stream[p].content.document.document_id
                    => stream[p].content.document.match_highlights
                          = ExpectedHighlights(documents[k])

\* C27: every frame of the stream ends with the blank line.
C27_EveryFrameTerminated ==
    \A p \in DOMAIN stream : stream[p].term

\* C24: a task of the citations stage exists only when related_docs_map is
\* defined, and no step changes related_docs_map once such a task exists.
C24_LookupReadOnlyInStage4 ==
    /\ [](cit_units # <<>> => related_docs_map.defined)
    /\ [][cit_units # <<>> => related_docs_map' = related_docs_map]_vars

\* a task of the citations stage is suspended in its call, after the
\* documents stage stored a document and then reported a failure
C24_Witness ==
    /\ pc = "s4_wait"
    /\ Indices(cit_units, {"running"}) # {}
    /\ related_docs_map.entries # <<>>
    /\ DocsFailed

\* C22: the lookup of a pair returns a document only when the document was
\* stored for that very pair.
C22_LookupOnlyOwnPair ==
    (probe.op = "lookup" /\ probe.done /\ probe.out[1] # NoDoc)
        => (probe.reg_name = probe.reg2 /\ probe.art_name = probe.art2)

StoreKey(chunk) == Key(chunk.content.regulation, chunk.content.article)

\* the first of the chunks stored so far that has the key
FirstFor(key) ==
    CHOOSE m \in 1..(probe.k - 1) :
        /\ StoreKey(probe.chunks[m]) = key
        /\ \A n \in 1..(m - 1) : StoreKey(probe.chunks[n]) # key

\* C23: after any number of chunks stored, the lookup holds each key once,
\* with the document of the first chunk that had the key; and storing a
\* chunk whose key is already there leaves the lookup as it was.
C23_FirstWriteWins ==
    /\ [](probe.op = "store" =>
            /\ \A i, j \in DOMAIN probe.out :
                  probe.out[i].key = probe.out[j].key => i = j
            /\ \A m \in 1..(probe.k - 1) :
                  \E j \in DOMAIN probe.out :
                      /\ probe.out[j].key = StoreKey(probe.chunks[m])
                      /\ probe.out[j].document
                            = probe.chunks[FirstFor(StoreKey(probe.chunks[m]))]
                                  .content.document)
    /\ [][(/\ probe.op = "store"
           /\ probe.k <= Len(probe.chunks)
           /\ \E j \in DOMAIN probe.out :
                 probe.out[j].key = StoreKey(probe.chunks[probe.k]))
          => probe'.out = probe.out]_vars

\* two chunks with the same key and different documents were stored
C23_Witness ==
    /\ probe.op = "store" /\ probe.done
    /\ probe.chunks = <<RelatedChunk("r1", "a1", "d1"), RelatedChunk("r1", "a1", "d2")>>
    /\ probe.out = <<[key |-> Key("r1", "a1"), document |-> StoredDoc("d1")]>>

====
